---- MODULE Spec2Model ----
(***************************************************************************)
(* A model of the remote build-artifact cache client of                    *)
(* src/src/internal/objectstorageClient.ts: version computation, key       *)
(* resolution against the object store (getCacheEntry), the two            *)
(* reservation strategies (reserveCache, reserveCacheVolc) and the save    *)
(* operation (uploadFile, saveCache).                                      *)
(*                                                                         *)
(* Strings of the program are TLA+ strings, concatenated with \o exactly   *)
(* as the template literals of the source concatenate them.  Every await   *)
(* of the source is a separate step of the calling process, so that the    *)
(* calls of concurrent pipeline runs interleave at the suspension points.  *)
(*                                                                         *)
(* Some fields of frame and ret, and the variables issued and committed,   *)
(* are history: they record what the bucket held or what the store         *)
(* answered when the code acted, for the properties to refer to.  The code *)
(* reads none of them: existed, savedAtStart, storedAtStart, in, put,      *)
(* overwrote, flow, committedBefore, fresh, overlapped, putSeq, found,     *)
(* serviceCommit, remote.                                                  *)
(***************************************************************************)
EXTENDS Integers, Sequences, FiniteSets, TLC

VARIABLES
    env,        \* the process environment read at module load (repo, ref, workflowHash, platform)
    job,        \* per pipeline run: the key list, paths and options of its cache step
    store,      \* the bucket: object address -> stored archive, or NoObject
    reserved,   \* native cache service: the (key, version) pairs that hold a reservation
    frame,      \* per pipeline run: the call in flight, suspended at an await
    ret,        \* per pipeline run: what its last completed call returned
    ncalls,     \* number of calls started so far
    issued,     \* the cacheIds returned by the reserveCacheVolc invocations, in order
    committed,  \* (key, version) pairs whose save flow returned reporting success
    addrs,      \* object addresses constructed by the address specification
    files,      \* per pipeline run: the file at the archive path of its download
    nputs,      \* number of puts the bucket has accepted so far
    closed,     \* native cache service: the reservation ids it no longer accepts a commit for
    heap,       \* the arrays of a getCacheVersion call: the caller's paths, and components
    vlog,       \* the getCacheVersion calls made, with what they hashed and returned
    up          \* an upload of the upload specification: its options and its requests

\* the state of the specifications of single functions
pureVars == <<heap, vlog, up>>

vars == <<env, job, store, reserved, frame, ret, ncalls, issued, committed, addrs,
          files, nputs, closed, pureVars>>

----------------------------------------------------------------------------
(* Bounds of the model *)

\* calls started in one behaviour, over all pipeline runs
MaxCalls == 3
\* addresses constructed in one behaviour of the address specification
MaxAddrs == 2
\* length of the key list handed to getCacheEntry
MaxKeys == 2
\* archive size, uploadChunkSize (bytes) and uploadConcurrency of an upload
MaxFileSize == 4
MaxChunkSize == 3
MaxConcurrency == 2
\* calls of getCacheVersion in one behaviour of the version specification
MaxVersionCalls == 2

Procs == {"run1", "run2"}

Keys == {"lock-", "lock-abc", "lock-x"}

\* saveCache is handed a cacheId by its caller: a key, or a reservation id as a string
CacheIds == Keys \cup {"1"}

\* one pipeline run resolves and the other writes, in the resolution specification
Resolver == "run1"
Writer == "run2"

\* (paths, options) of a call; compressionMethod "" stands for an absent one
VersionInputs ==
    { [paths |-> <<"/a", "/b">>, compressionMethod |-> "zstd", enableCrossOsArchive |-> FALSE],
      [paths |-> <<"/a">>, compressionMethod |-> "", enableCrossOsArchive |-> FALSE] }

DefaultEnv == [repo |-> "o/r", ref |-> "main", workflowHash |-> "h", platform |-> "linux"]

\* the cache steps a pipeline run is configured with, in the flow specification
Jobs ==
    { [keys |-> ks, in |-> in] : ks \in {<<"lock-x">>, <<"lock-abc", "lock-">>},
                                 in \in VersionInputs }

DefaultJob == [keys |-> <<"lock-x">>, in |-> CHOOSE in \in VersionInputs : in.compressionMethod = "zstd"]

NoObject == [none |-> TRUE]
NoCall == [op |-> "none"]
NoFile == [absent |-> TRUE]
NoUpload == [pc |-> "none"]

----------------------------------------------------------------------------
(* getCacheVersion *)

versionSalt == "1.0"

RECURSIVE Join(_, _)
\* Array.prototype.join
Join(components, sep) ==
    IF Len(components) = 0 THEN ""
    ELSE IF Len(components) = 1 THEN components[1]
    ELSE components[1] \o sep \o Join(Tail(components), sep)

\* crypto.createHash("sha256").update(s).digest("hex"): the digest is kept as
\* a non-empty token that names its input, the collision-free idealisation
Sha256Hex(s) == "sha256:" \o s

\* components with the salt pushed first
VersionComponentsSaltFirst(paths, compressionMethod, enableCrossOsArchive, platform) ==
    LET c0 == Append(paths, versionSalt)
        c1 == IF compressionMethod # "" THEN Append(c0, compressionMethod) ELSE c0
    IN  IF platform = "win32" /\ ~enableCrossOsArchive
        THEN Append(c1, "windows-only") ELSE c1

\* the components that are hashed, in the order the code pushes them
VersionComponents(paths, compressionMethod, enableCrossOsArchive, platform) ==
    LET c0 == paths
        c1 == IF compressionMethod # "" THEN Append(c0, compressionMethod) ELSE c0
        c2 == IF platform = "win32" /\ ~enableCrossOsArchive
              THEN Append(c1, "windows-only") ELSE c1
    IN  Append(c2, versionSalt)

getCacheVersion(paths, compressionMethod, enableCrossOsArchive, platform) ==
    Sha256Hex(Join(VersionComponents(paths, compressionMethod,
                                     enableCrossOsArchive, platform), "|"))

VersionOf(in, e) ==
    getCacheVersion(in.paths, in.compressionMethod, in.enableCrossOsArchive, e.platform)

----------------------------------------------------------------------------
(* Namespace addressing *)

\* `caches/${repo}/${ref}/${workflowHash}/${key}`
ObjectKey(e, key) ==
    "caches/" \o e.repo \o "/" \o e.ref \o "/" \o e.workflowHash \o "/" \o key

Addresses == { ObjectKey(DefaultEnv, id) : id \in Keys \cup CacheIds }

\* the archive a caller hands to saveCache: who built it, and for which version
ArchiveOf(p, in, e) == [by |-> p, version |-> VersionOf(in, e)]

\* an archive stored by a pipeline run that ended before the behaviour starts
EarlierArchive == ArchiveOf("earlier", DefaultJob.in, DefaultEnv)

Exists(a) == store[a] # NoObject

----------------------------------------------------------------------------
(* The object store's answers *)

\* headObject resolves ("200") only when the object exists, rejects with a
\* TosServerError of status 404 only when it does not, and may reject with any
\* other server status or with a TosClientError in both cases
HeadAnswers(a) ==
    (IF Exists(a) THEN {"200"} ELSE {"404"}) \cup {"403", "network"}

\* putObjectFromFile resolves or rejects
PutAnswers == {"200", "403", "network"}

IsFault(answer) == answer \notin {"200", "404"}

----------------------------------------------------------------------------
Idle(p) == frame[p] = NoCall /\ ncalls < MaxCalls

Begin(p, f) ==
    /\ frame' = [frame EXCEPT ![p] = f]
    /\ ret' = [ret EXCEPT ![p] = NoCall]
    /\ ncalls' = ncalls + 1

Return(p, r) ==
    /\ frame' = [frame EXCEPT ![p] = NoCall]
    /\ ret' = [ret EXCEPT ![p] = r]

\* nothing in flight, nothing reserved, and the bucket as given
InitWith(jobs, bucket) ==
    /\ env = DefaultEnv
    /\ job = jobs
    /\ store = bucket
    /\ reserved = {}
    /\ frame = [p \in Procs |-> NoCall]
    /\ ret = [p \in Procs |-> NoCall]
    /\ ncalls = 0
    /\ issued = <<>>
    /\ committed = {}
    /\ addrs = {}
    /\ files = [p \in Procs |-> NoFile]
    /\ nputs = 0
    /\ closed = {}

\* no call of getCacheVersion and no upload of the single-function specifications
NoVersionCall ==
    /\ heap = [paths |-> <<>>, components |-> <<>>]
    /\ vlog = <<>>

PureIdle == NoVersionCall /\ up = NoUpload

EmptyBucket == [a \in Addresses |-> NoObject]

Init == PureIdle /\ \E jobs \in [Procs -> Jobs] : InitWith(jobs, EmptyBucket)

----------------------------------------------------------------------------
(* getCacheEntry *)

\* the key lists a caller passes: non-empty, the primary key first
KeyLists ==
    UNION { [1..n -> Keys] : n \in 1..MaxKeys }

HitEntry(key, version, objectKey) ==
    [cacheKey |-> key, cacheVersion |-> version, objectKey |-> objectKey]

\* a miss answered as before the move to the object store: no entry at all
MissEntryNull(version) == [null |-> TRUE]

MissEntry(version) == [cacheVersion |-> version]

\* what the try/catch around headObject does with the answer: a resolved
\* head returns the entry; every rejection is caught, a 404 is logged, and
\* the loop goes on
HeadDisposition(answer) ==
    IF answer = "200" THEN "return" ELSE "continue"

IsHit(entry) == "cacheKey" \in DOMAIN entry

KeysOf(pairs) == { pr[1] : pr \in pairs }

\* the cache keys that have an object in the scope of env
StoredKeys == { k \in Keys \cup CacheIds : Exists(ObjectKey(env, k)) }

\* a loop that stays at the key it has just probed
NextIndexSame(i) == i

\* `for (const key of keys)`: after the body has run for the key at
\* position i, the iteration goes to position i + 1
NextIndex(i) == i + 1

GetCacheEntryStart(p, keys, in) ==
    /\ Idle(p)
    /\ Begin(p, [op |-> "getCacheEntry", keys |-> keys, in |-> in,
                 version |-> VersionOf(in, env), i |-> 1, probes |-> <<>>,
                 savedAtStart |-> KeysOf(committed), storedAtStart |-> StoredKeys])
    /\ UNCHANGED <<env, job, store, reserved, issued, committed, addrs, files, nputs, closed, pureVars>>

\* one iteration of the loop over keys: the head request for keys[i] is
\* answered, and the code runs on to the next await or to its return
HeadObject(p) ==
    /\ frame[p].op = "getCacheEntry"
    /\ LET f == frame[p]
           key == f.keys[f.i]
           objectKey == ObjectKey(env, key)
       IN  \E answer \in HeadAnswers(objectKey) :
             LET probes == Append(f.probes, [key |-> key, objectKey |-> objectKey,
                                             existed |-> Exists(objectKey),
                                            found |-> store[objectKey],
                                             answer |-> answer])
                 result(entry) == [op |-> "getCacheEntry", outcome |-> "returned",
                                   entry |-> entry, keys |-> f.keys, in |-> f.in,
                                   probes |-> probes,
                                   savedAtStart |-> f.savedAtStart,
                                   storedAtStart |-> f.storedAtStart]
             IN  IF HeadDisposition(answer) = "return"
                 THEN Return(p, result(HitEntry(key, f.version, objectKey)))
                 ELSE IF f.i < Len(f.keys)
                 THEN /\ frame' = [frame EXCEPT ![p] = [f EXCEPT !.i = NextIndex(f.i),
                                                                 !.probes = probes]]
                      /\ ret' = ret
                 ELSE Return(p, result(MissEntry(f.version)))
    /\ UNCHANGED <<env, job, store, reserved, ncalls, issued, committed, addrs, files, nputs, closed, pureVars>>

----------------------------------------------------------------------------
(* commitCache: native reservation mode *)

\* the ids the cache service has handed out
ReservationIds == {ToString(i) : i \in 1..Cardinality(reserved)}

\* the cache service's commit, from its contract: it closes an open
\* reservation, and rejects a commit for any other id
BackendCommit(cacheId) ==
    IF cacheId \in ReservationIds \ closed
    THEN [statusCode |-> 204]
    ELSE [statusCode |-> 409]

\* the cache service lets an open reservation expire
ExpireReservation(cacheId) ==
    /\ cacheId \in ReservationIds \ closed
    /\ closed' = closed \cup {cacheId}
    /\ UNCHANGED <<env, job, store, reserved, frame, ret, ncalls, issued, committed,
                   addrs, files, nputs, pureVars>>

\* saveCache's commit step: the call of commitCache and the throw on a status
\* that is not a success are commented out, no request is sent
CommitsSent == 0

----------------------------------------------------------------------------
(* uploadFile, saveCache *)

\* an object name that does not depend on the cacheId
ObjectNameShared(e, cacheId) == ObjectKey(e, "1")

\* `caches/${repo}/${ref}/${workflowHash}/${cacheId}`
ObjectName(e, cacheId) == ObjectKey(e, cacheId)

\* uploadFile: the rejection of putObjectFromFile is caught and handed to
\* handleError, which logs it; uploadFile resolves in both cases
UploadFileOutcome(answer) == "resolved"

\* what saveCache does once uploadFile has settled
SaveCacheOutcome(upload) ==
    IF upload = "resolved"
    THEN [outcome |-> "returned", reported |-> "Cache saved successfully"]
    ELSE [outcome |-> "threw", reported |-> "none"]

\* history: the (key, version) an upload belongs to, which is that of the
\* reservation the same run was granted just before when the upload is made
\* under the id of that reservation
FlowOf(p, cacheId) ==
    IF /\ ret[p].op = "reserveCacheVolc"
       /\ ToString(ret[p].cacheId) = cacheId
    THEN {<<ret[p].key, ret[p].version>>}
    ELSE {}

\* history: the runs whose saveCache for the same cacheId is in flight
SavingNow(cacheId) ==
    {q \in Procs : frame[q].op = "saveCache" /\ frame[q].cacheId = cacheId}

\* an object store that keeps the object it already holds
StoreKeepsFirst(bucket, objectName, archive) ==
    IF bucket[objectName] # NoObject THEN bucket
    ELSE [bucket EXCEPT ![objectName] = archive]

\* an accepted putObjectFromFile: the object at `key` is the file, whole,
\* whatever was stored there before
StoreAfterPut(bucket, objectName, archive) == [bucket EXCEPT ![objectName] = archive]

SaveCacheStart(p, cacheId, archive) ==
    /\ Idle(p)
    /\ Begin(p, [op |-> "saveCache", cacheId |-> cacheId, archive |-> archive,
                 overlapped |-> SavingNow(cacheId),
                 flow |-> FlowOf(p, cacheId),
                 committedBefore |-> FlowOf(p, cacheId) \cap committed # {}])
    /\ UNCHANGED <<env, job, store, reserved, issued, committed, addrs, files, nputs, closed, pureVars>>

\* putObjectFromFile is answered; uploadFile and then saveCache run to their end
PutObject(p) ==
    /\ frame[p].op = "saveCache"
    /\ LET f == frame[p]
           objectName == ObjectName(env, f.cacheId)
       IN  \E answer \in PutAnswers :
             LET done == SaveCacheOutcome(UploadFileOutcome(answer))
             IN  /\ store' = IF answer = "200"
                             THEN StoreAfterPut(store, objectName, f.archive)
                             ELSE store
                 /\ nputs' = IF answer = "200" THEN nputs + 1 ELSE nputs
                 /\ committed' = IF answer = "200" /\ done.outcome = "returned"
                                 THEN committed \cup f.flow
                                 ELSE committed
                 /\ Return(p, [op |-> "saveCache", cacheId |-> f.cacheId,
                               objectName |-> objectName, put |-> answer,
                               archive |-> f.archive,
                               putSeq |-> nputs',
                               overlapped |-> f.overlapped,
                               overwrote |-> answer = "200" /\ Exists(objectName),
                               outcome |-> done.outcome, reported |-> done.reported,
                               commits |-> CommitsSent,
                               serviceCommit |-> BackendCommit(f.cacheId).statusCode,
                               flow |-> f.flow,
                               committedBefore |-> f.committedBefore])
    /\ UNCHANGED <<env, job, reserved, ncalls, issued, addrs, files, closed, pureVars>>

----------------------------------------------------------------------------
(* reserveCacheVolc: storage-direct mode *)

VolcCacheId == 1

\* no await in its body: computes the version, returns the constant id
ReserveCacheVolc(p, key, in) ==
    /\ Idle(p)
    /\ ncalls' = ncalls + 1
    /\ ret' = [ret EXCEPT ![p] = [op |-> "reserveCacheVolc", key |-> key,
                                  version |-> VersionOf(in, env),
                                  cacheId |-> VolcCacheId,
                                  committedBefore |->
                                      <<key, VersionOf(in, env)>> \in committed]]
    /\ issued' = Append(issued, VolcCacheId)
    /\ UNCHANGED <<env, job, store, reserved, frame, committed, addrs, files, nputs, closed, pureVars>>

----------------------------------------------------------------------------
(* reserveCache: native reservation mode *)

\* the cache service's reserve, from its contract: the reservation is created
\* atomically, and a pair that already holds one is answered with a conflict
BackendReserve(request) ==
    IF <<request.key, request.version>> \in reserved
    THEN [statusCode |-> 409, cacheId |-> 0]
    ELSE [statusCode |-> 201, cacheId |-> Cardinality(reserved) + 1]

\* a reserve that grants whatever the service answered
ReserveCacheResponseGranted(response) == [statusCode |-> 201, cacheId |-> 1]

\* reserveCache hands the service's response to its caller as it is
ReserveCacheResponse(response) == response

ReserveCacheStart(p, key, in) ==
    /\ Idle(p)
    /\ LET version == VersionOf(in, env)
       IN  Begin(p, [op |-> "reserveCache",
                     request |-> [key |-> key, version |-> version],
                     fresh |-> <<key, version>> \notin reserved])
    /\ UNCHANGED <<env, job, store, reserved, issued, committed, addrs, files, nputs, closed, pureVars>>

\* the POST to the service is answered
PostReserve(p) ==
    /\ frame[p].op = "reserveCache"
    /\ LET f == frame[p]
           response == BackendReserve(f.request)
       IN  /\ reserved' = IF response.statusCode = 201
                          THEN reserved \cup {<<f.request.key, f.request.version>>}
                          ELSE reserved
           /\ Return(p, [op |-> "reserveCache", key |-> f.request.key,
                         version |-> f.request.version, fresh |-> f.fresh,
                         response |-> ReserveCacheResponse(response)])
    /\ UNCHANGED <<env, job, store, ncalls, issued, committed, addrs, files, nputs, closed, pureVars>>

----------------------------------------------------------------------------
(* The flow specification: two pipeline runs, each with its cache step,    *)
(* resolve, reserve (storage-direct) and save in any order and interleaving *)

\* the cacheId a run hands to saveCache: the id of its reservation, or its primary key
JobCacheIds(p) == {ToString(VolcCacheId), job[p].keys[1]}

Next ==
    \/ \E p \in Procs : GetCacheEntryStart(p, job[p].keys, job[p].in)
    \/ \E p \in Procs : HeadObject(p)
    \/ \E p \in Procs : \E cacheId \in JobCacheIds(p) :
          SaveCacheStart(p, cacheId, ArchiveOf(p, job[p].in, env))
    \/ \E p \in Procs : PutObject(p)
    \/ \E p \in Procs : ReserveCacheVolc(p, job[p].keys[1], job[p].in)

Spec == Init /\ [][Next]_vars

----------------------------------------------------------------------------
(* The resolution specification: one run resolves any key list against any *)
(* content of the bucket, while another run writes to the bucket           *)

InitResolve ==
    PureIdle /\ \E bucket \in [Addresses -> {NoObject, EarlierArchive}] :
        InitWith([p \in Procs |-> DefaultJob], bucket)

\* the run has made no call yet
Fresh(p) == frame[p] = NoCall /\ ret[p] = NoCall

NextResolve ==
    \/ \E keys \in KeyLists, in \in VersionInputs :
          Fresh(Resolver) /\ GetCacheEntryStart(Resolver, keys, in)
    \/ HeadObject(Resolver)
    \/ \E cacheId \in CacheIds :
          Fresh(Writer) /\ SaveCacheStart(Writer, cacheId, ArchiveOf(Writer, DefaultJob.in, env))
    \/ PutObject(Writer)

SpecResolve == InitResolve /\ [][NextResolve]_vars

\* the same runs on a bucket that starts empty, where every head request
\* the resolver has sent is answered or fails
InitResolveFair == PureIdle /\ InitWith([p \in Procs |-> DefaultJob], EmptyBucket)

SpecResolveFair == InitResolveFair /\ [][NextResolve]_vars /\ WF_vars(HeadObject(Resolver))

----------------------------------------------------------------------------
(* The native specification: pipeline runs reserve at the cache service *)

InitNative == PureIdle /\ InitWith([p \in Procs |-> DefaultJob], EmptyBucket)

NextNative ==
    \/ \E p \in Procs, key \in Keys, in \in VersionInputs : ReserveCacheStart(p, key, in)
    \/ \E p \in Procs : PostReserve(p)

SpecNative == InitNative /\ [][NextNative]_vars

\* the reservation a run holds: the one its reserveCache was just granted
Granted(p) ==
    IF ret[p].op = "reserveCache" /\ ret[p].response.statusCode = 201
    THEN {ToString(ret[p].response.cacheId)}
    ELSE {}

\* the native save flow of runs that populate the same cache line: reserve,
\* upload and the commit step of saveCache, while the service may let the
\* reservation expire
NextCommit ==
    \/ \E p \in Procs : ReserveCacheStart(p, job[p].keys[1], job[p].in)
    \/ \E p \in Procs : PostReserve(p)
    \/ \E p \in Procs : \E cacheId \in Granted(p) :
          SaveCacheStart(p, cacheId, ArchiveOf(p, job[p].in, env))
    \/ \E p \in Procs : PutObject(p)
    \/ \E cacheId \in CacheIds : ExpireReservation(cacheId)

SpecCommit == InitNative /\ [][NextCommit]_vars

----------------------------------------------------------------------------
(* The address specification: object addresses are constructed for scopes  *)
(* and keys whose components are arbitrary strings, '/' included           *)

Scopes ==
    [repo : {"o", "o/r"}, ref : {"m", "r/m"}, workflowHash : {"h", "g"}, platform : {"linux"}]

AddrKeys == {"k", "h/k"}

ScopeOf(e) == <<e.repo, e.ref, e.workflowHash>>

BuildAddress(e, key) ==
    /\ Cardinality(addrs) < MaxAddrs
    /\ addrs' = addrs \cup {[scope |-> ScopeOf(e), key |-> key, address |-> ObjectKey(e, key)]}
    /\ UNCHANGED <<env, job, store, reserved, frame, ret, ncalls, issued, committed,
                   files, nputs, closed, pureVars>>

NextAddr == \E e \in Scopes, key \in AddrKeys : BuildAddress(e, key)

SpecAddr == InitNative /\ [][NextAddr]_vars

----------------------------------------------------------------------------
(* downloadCache *)

\* the file at the archive path: all bytes of an object, or the bytes that
\* had arrived when the transfer stopped
CompleteFile(archive) == [archive |-> archive, bytes |-> "all"]
PartialFile(archive) == [archive |-> archive, bytes |-> "some"]

\* getObjectToFile writes the object into filePath and resolves, or rejects.
\* A transfer may deliver fewer bytes than the declared content-length
\* ("short") or break off ("network"); what the SDK then leaves at filePath,
\* and whether it rejects a short transfer, is not decided by this code: each
\* outcome the SDK can produce is taken
GetObjectToFileResults(a, before) ==
    IF Exists(a)
    THEN {[answer |-> "200", sdk |-> "resolved", file |-> CompleteFile(store[a])]}
         \cup {[answer |-> "short", sdk |-> r, file |-> PartialFile(store[a])] :
                   r \in {"resolved", "rejected"}}
         \cup {[answer |-> "network", sdk |-> "rejected", file |-> f] :
                   f \in {before, PartialFile(store[a])}}
         \cup {[answer |-> "403", sdk |-> "rejected", file |-> before]}
    ELSE {[answer |-> x, sdk |-> "rejected", file |-> before] : x \in {"404", "403", "network"}}

\* downloadCache awaits getObjectToFile and does nothing else: a rejection
\* is its own rejection, and the file is left as the SDK left it
DownloadCacheOutcome(sdk) == IF sdk = "resolved" THEN "returned" ELSE "threw"

DownloadCacheStart(p, objectKey) ==
    /\ Idle(p)
    /\ Begin(p, [op |-> "downloadCache", objectKey |-> objectKey])
    /\ UNCHANGED <<env, job, store, reserved, issued, committed, addrs, files, nputs, closed, pureVars>>

\* getObjectToFile settles; downloadCache runs to its end
GetObjectToFile(p) ==
    /\ frame[p].op = "downloadCache"
    /\ LET a == frame[p].objectKey
       IN  \E res \in GetObjectToFileResults(a, files[p]) :
             /\ files' = [files EXCEPT ![p] = res.file]
             /\ Return(p, [op |-> "downloadCache", objectKey |-> a,
                           answer |-> res.answer,
                           remote |-> store[a],
                           outcome |-> DownloadCacheOutcome(res.sdk)])
    /\ UNCHANGED <<env, job, store, reserved, ncalls, issued, committed, addrs, nputs, closed, pureVars>>

----------------------------------------------------------------------------
(* The download specification: each run downloads one object of any bucket *)

NextDownload ==
    \/ \E p \in Procs, a \in Addresses : Fresh(p) /\ DownloadCacheStart(p, a)
    \/ \E p \in Procs : GetObjectToFile(p)

SpecDownload == InitResolve /\ [][NextDownload]_vars

----------------------------------------------------------------------------
(* uploadFile: the requests of one upload *)

UploadOptionsSet ==
    [uploadChunkSize : 1..MaxChunkSize, uploadConcurrency : 1..MaxConcurrency]

\* uploadFile hands archivePath to one putObjectFromFile, which sends the
\* file as one object; `options` is not read
UploadRequests(fileSize, options) == <<[start |-> 0, end |-> fileSize - 1, worker |-> 1]>>

UploadFileStart ==
    /\ up.pc = "ready"
    /\ up' = [up EXCEPT !.pc = "putObjectFromFile"]
    /\ UNCHANGED <<env, job, store, reserved, frame, ret, ncalls, issued, committed,
                   addrs, files, nputs, closed, heap, vlog>>

\* putObjectFromFile settles; uploadFile runs to its end
UploadFileEnd ==
    /\ up.pc = "putObjectFromFile"
    /\ \E answer \in PutAnswers :
          up' = [up EXCEPT !.pc = "done",
                           !.requests = UploadRequests(up.fileSize, up.options),
                           !.put = answer,
                           !.outcome = UploadFileOutcome(answer)]
    /\ UNCHANGED <<env, job, store, reserved, frame, ret, ncalls, issued, committed,
                   addrs, files, nputs, closed, heap, vlog>>

----------------------------------------------------------------------------
(* The upload specification: one uploadFile of any size under any options *)

InitUpload ==
    /\ NoVersionCall
    /\ \E fileSize \in 1..MaxFileSize, options \in UploadOptionsSet :
          up = [pc |-> "ready", fileSize |-> fileSize, options |-> options,
                requests |-> <<>>, put |-> "none", outcome |-> "none"]
    /\ InitWith([p \in Procs |-> DefaultJob], EmptyBucket)

NextUpload == UploadFileStart \/ UploadFileEnd

SpecUpload == InitUpload /\ [][NextUpload]_vars

----------------------------------------------------------------------------
(* getCacheVersion as a call: the caller's array and the array it pushes to *)

Platforms == {"linux", "win32"}

PathLists == {<<>>, <<"/a">>, <<"/a", "/b">>, <<"/b", "/a">>}

AllVersionInputs ==
    [paths : PathLists, compressionMethod : {"", "zstd", "gzip"},
     enableCrossOsArchive : BOOLEAN]

\* components is the caller's array itself
SliceAlias(array) == array

\* `const components = paths.slice()`: components is a new array, named
\* "components" on the heap, that starts with the elements of paths
SliceTarget(array) == "components"

\* one call, which has no await: the pushes go to the array that components
\* refers to, the join and the hash read it
GetCacheVersionCall(in) ==
    /\ Len(vlog) < MaxVersionCalls
    /\ LET called == [paths |-> in.paths, components |-> <<>>]
           components == SliceTarget("paths")
           pushed == [called EXCEPT ![components] =
                         VersionComponents(called.paths, in.compressionMethod,
                                           in.enableCrossOsArchive, env.platform)]
           hashed == Join(pushed[components], "|")
       IN  /\ heap' = pushed
           /\ vlog' = Append(vlog, [in |-> in, platform |-> env.platform,
                                    pathsAfter |-> pushed.paths,
                                    hashed |-> hashed,
                                    version |-> Sha256Hex(hashed)])
    /\ UNCHANGED <<env, job, store, reserved, frame, ret, ncalls, issued, committed,
                   addrs, files, nputs, closed, up>>

----------------------------------------------------------------------------
(* The version specification: calls of getCacheVersion on either platform *)

InitVersion ==
    /\ PureIdle
    /\ \E platform \in Platforms : env = [DefaultEnv EXCEPT !.platform = platform]
    /\ job = [p \in Procs |-> DefaultJob]
    /\ store = EmptyBucket
    /\ reserved = {}
    /\ frame = [p \in Procs |-> NoCall]
    /\ ret = [p \in Procs |-> NoCall]
    /\ ncalls = 0
    /\ issued = <<>>
    /\ committed = {}
    /\ addrs = {}
    /\ files = [p \in Procs |-> NoFile]
    /\ nputs = 0
    /\ closed = {}

NextVersion == \E in \in AllVersionInputs : GetCacheVersionCall(in)

SpecVersion == InitVersion /\ [][NextVersion]_vars

----------------------------------------------------------------------------
(* The namespace specification: one run reads (resolve, version, download,  *)
(* storage-direct reserve) and the other saves                             *)

\* the bucket at the start: empty, holding one earlier object, or holding an
\* earlier object at every address
FrameBuckets ==
    { EmptyBucket,
      [EmptyBucket EXCEPT ![ObjectKey(DefaultEnv, "lock-x")] = EarlierArchive],
      [a \in Addresses |-> EarlierArchive] }

InitFrame ==
    PureIdle /\ \E bucket \in FrameBuckets : InitWith([p \in Procs |-> DefaultJob], bucket)

FrameKeyLists == {<<"lock-x">>, <<"lock-abc", "lock-">>}

NextFrame ==
    \/ \E keys \in FrameKeyLists : GetCacheEntryStart(Resolver, keys, DefaultJob.in)
    \/ HeadObject(Resolver)
    \/ \E a \in Addresses : DownloadCacheStart(Resolver, a)
    \/ GetObjectToFile(Resolver)
    \/ ReserveCacheVolc(Resolver, DefaultJob.keys[1], DefaultJob.in)
    \/ \E in \in VersionInputs : vlog = <<>> /\ GetCacheVersionCall(in)
    \/ \E cacheId \in CacheIds :
          SaveCacheStart(Writer, cacheId, ArchiveOf(Writer, DefaultJob.in, env))
    \/ PutObject(Writer)

SpecFrame == InitFrame /\ [][NextFrame]_vars

----------------------------------------------------------------------------
(* Properties *)

Resolved(p) == ret[p].op = "getCacheEntry"

NoFault(probes) == \A i \in DOMAIN probes : ~IsFault(probes[i].answer)

\* String.prototype.startsWith
StartsWith(s, prefix) ==
    Len(prefix) <= Len(s) /\ SubSeq(s, 1, Len(prefix)) = prefix

\* the positions of the key list whose address existed when it was probed
ExistedAt(r) == { i \in DOMAIN r.probes : r.probes[i].existed }

\* C1: getCacheEntry probes the keys in list order; at the first key whose
\* address exists it returns the entry of that key (cacheKey, objectKey and
\* the computed cacheVersion) and issues no head request after it; every key
\* before the returned one was probed and did not exist.
C1_FirstMatchWins ==
    \A p \in Procs : Resolved(p) =>
        LET r == ret[p]
            n == Len(r.probes)
        IN  /\ n <= Len(r.keys)
            /\ \A i \in 1..n : r.probes[i].key = r.keys[i]
            /\ ExistedAt(r) # {} =>
                  /\ IsHit(r.entry)
                  /\ \A i \in ExistedAt(r) : n <= i
            /\ IsHit(r.entry) =>
                  /\ r.entry = [cacheKey |-> r.keys[n],
                                cacheVersion |-> VersionOf(r.in, env),
                                objectKey |-> ObjectKey(env, r.keys[n])]
                  /\ ExistedAt(r) = {n}

\* C2: a head request answered with an error other than not-found ends
\* getCacheEntry with a fatal error: neither a miss nor a hit is returned.
C2_FaultIsFatal ==
    \A p \in Procs : Resolved(p) /\ ~NoFault(ret[p].probes) => ret[p].outcome = "threw"

\* C8: when no key of the list has an object at its address, getCacheEntry
\* returns a miss whose cacheVersion is the computed, non-empty version and
\* whose cacheKey and objectKey are absent.
C8_MissCarriesVersion ==
    \A p \in Procs : Resolved(p) /\ ExistedAt(ret[p]) = {} =>
        LET r == ret[p]
        IN  /\ r.outcome = "returned"
            /\ Len(r.probes) = Len(r.keys)
            /\ DOMAIN r.entry = {"cacheVersion"}
            /\ r.entry.cacheVersion = VersionOf(r.in, env)
            /\ Len(r.entry.cacheVersion) > 0

C8_Witness ==
    \E p \in Procs :
        /\ Resolved(p)
        /\ Len(ret[p].keys) = 2
        /\ ExistedAt(ret[p]) = {}
        /\ ~IsHit(ret[p].entry)
        /\ NoFault(ret[p].probes)

\* C9: a fallback key is matched by prefix: when the primary key misses and
\* the scope holds an entry whose cache key starts with a fallback key of
\* the list, getCacheEntry returns a hit.
C9_FallbackByPrefix ==
    \A p \in Procs : Resolved(p) =>
        LET r == ret[p]
        IN  ( /\ NoFault(r.probes)
              /\ r.probes[1].answer = "404"
              /\ \E i \in 2..Len(r.keys) : \E k \in r.storedAtStart :
                    r.keys[i] # r.keys[1] /\ StartsWith(k, r.keys[i]) )
            => IsHit(r.entry)

\* C3: when the upload fails, saveCache surfaces an error, makes no commit
\* and does not report success; it reports success only after an upload
\* that succeeded.
C3_FailedUploadSurfaces ==
    \A p \in Procs : ret[p].op = "saveCache" =>
        /\ ret[p].put # "200" =>
              /\ ret[p].outcome = "threw"
              /\ ret[p].commits = 0
        /\ ret[p].reported = "Cache saved successfully" => ret[p].put = "200"

\* C4: once an entry is committed for a (key, version) pair, no later
\* reservation for the pair is granted and the stored object is not
\* overwritten.
C4_SingleCommitPerPair ==
    \A p \in Procs :
        /\ ret[p].op = "reserveCacheVolc" => ~ret[p].committedBefore
        /\ ret[p].op = "saveCache" /\ ret[p].committedBefore =>
              /\ ret[p].outcome = "threw"
              /\ ~ret[p].overwrote

\* C6: every storage-direct reservation returns an id that differs from
\* the id of every other invocation.
C6_UniqueReservationIds ==
    \A i, j \in DOMAIN issued : i # j => issued[i] # issued[j]

\* C7: after a save flow for key k (reserve, upload under the returned id,
\* commit) has completed, a later getCacheEntry whose list contains k, with
\* no earlier key of the list existing, returns a hit bound to k.
C7_SavedKeyResolves ==
    \A p \in Procs : Resolved(p) =>
        LET r == ret[p]
        IN  \A i \in DOMAIN r.keys :
              ( /\ r.keys[i] \in r.savedAtStart
                /\ NoFault(r.probes)
                /\ \A j \in 1..(i - 1) : j \in DOMAIN r.probes /\ ~r.probes[j].existed )
              => IsHit(r.entry) /\ r.entry.cacheKey = r.keys[i]

C10_ScopesNeverCollide ==
    \A x, y \in addrs : x.scope # y.scope => x.address # y.address

Downloaded(p) == ret[p].op = "downloadCache"

\* C11: when a download fails the archive path does not exist afterwards:
\* at every exit of downloadCache the destination is the complete remote
\* object or absent, never a partial file.
C11_FailedDownloadLeavesNoFile ==
    \A p \in Procs : Downloaded(p) =>
        /\ ret[p].outcome = "threw" => files[p] = NoFile
        /\ files[p] \in {NoFile, CompleteFile(ret[p].remote)}

\* C12: when the backend declares a content-length and delivers fewer
\* bytes, downloadCache ends in failure and the destination does not exist.
C12_ShortDeliveryFails ==
    \A p \in Procs : Downloaded(p) /\ ret[p].answer = "short" =>
        /\ ret[p].outcome = "threw"
        /\ files[p] = NoFile

\* C13: when the service rejects the commit of a reservation (expired,
\* already committed), the save ends with an error and does not report that
\* the cache was saved.
C13_RejectedCommitFailsSave ==
    \A p \in Procs :
        ret[p].op = "saveCache" /\ ret[p].serviceCommit # 204 =>
            /\ ret[p].outcome = "threw"
            /\ ret[p].reported # "Cache saved successfully"

CeilDiv(a, b) == (a + b - 1) \div b
Min(a, b) == IF a <= b THEN a ELSE b
BytesOf(request) == request.start .. request.end

\* C14: for every archive size S > 0, chunk size C > 0 and worker count
\* N >= 1 the upload issues exactly ceil(S/C) chunk requests; their
\* inclusive ranges are pairwise disjoint, cover [0, S-1], start at a
\* multiple of C and end at min(start + C, S) - 1; each chunk is claimed by
\* exactly one worker.
C14_ChunksPartitionTheFile ==
    up.pc = "done" =>
        LET S == up.fileSize
            C == up.options.uploadChunkSize
            N == up.options.uploadConcurrency
            reqs == up.requests
        IN  /\ Len(reqs) = CeilDiv(S, C)
            /\ \A i \in 1..Len(reqs) :
                  /\ reqs[i].start % C = 0
                  /\ reqs[i].end = Min(reqs[i].start + C, S) - 1
                  /\ reqs[i].worker \in 1..N
            /\ \A i, j \in 1..Len(reqs) :
                  i # j => BytesOf(reqs[i]) \cap BytesOf(reqs[j]) = {}
            /\ UNION {BytesOf(reqs[i]) : i \in 1..Len(reqs)} = 0..(S - 1)

\* C15: getCacheVersion is a pure function of (paths, compressionMethod,
\* enableCrossOsArchive, platform): calls with identical inputs return
\* identical output, whatever was called before, and the caller's path list
\* holds the same elements in the same order after the call as before it.
C15_VersionIsPure ==
    /\ \A i, j \in 1..Len(vlog) :
          vlog[i].in = vlog[j].in /\ vlog[i].platform = vlog[j].platform
              => vlog[i].version = vlog[j].version
    /\ \A i \in 1..Len(vlog) :
          /\ vlog[i].pathsAfter = vlog[i].in.paths
          /\ vlog[i].version = VersionOf(vlog[i].in, [platform |-> vlog[i].platform])
    /\ Len(vlog) > 0 => heap.paths = vlog[Len(vlog)].in.paths

\* two calls with the same inputs, each of which pushed the compression
\* method, the marker and the salt
C15_Witness ==
    /\ Len(vlog) = 2
    /\ vlog[1].in = vlog[2].in
    /\ vlog[1].in.paths = <<"/a", "/b">>
    /\ vlog[1].in.compressionMethod = "zstd"
    /\ vlog[1].platform = "win32" /\ ~vlog[1].in.enableCrossOsArchive
    /\ Len(heap.components) = 5

\* the hashed string as the claim words it
HashedAsSpecified(in, platform) ==
    Join(in.paths
           \o (IF in.compressionMethod # "" THEN <<in.compressionMethod>> ELSE <<>>)
           \o (IF platform = "win32" /\ ~in.enableCrossOsArchive
               THEN <<"windows-only">> ELSE <<>>)
           \o <<"1.0">>, "|")

\* C16: the string hashed is the '|'-join of the paths in caller order, then
\* the compression method iff one is given, then "windows-only" iff the
\* platform is Windows and enableCrossOsArchive is false, then the salt
\* "1.0"; for paths ["/a","/b"], zstd, non-Windows it is "/a|/b|zstd|1.0".
C16_HashedString ==
    \A i \in 1..Len(vlog) :
        /\ vlog[i].hashed = HashedAsSpecified(vlog[i].in, vlog[i].platform)
        /\ ( /\ vlog[i].in.paths = <<"/a", "/b">>
             /\ vlog[i].in.compressionMethod = "zstd"
             /\ vlog[i].platform # "win32"
             => vlog[i].hashed = "/a|/b|zstd|1.0" )

\* a call on Windows that pushed all three components, after the example call
C16_Witness ==
    /\ Len(vlog) = 2
    /\ vlog[1].in.paths = <<"/a", "/b">> /\ vlog[1].in.compressionMethod = "gzip"
    /\ vlog[1].in.enableCrossOsArchive
    /\ vlog[2].in.paths = <<"/b", "/a">> /\ vlog[2].in.compressionMethod = "zstd"
    /\ ~vlog[2].in.enableCrossOsArchive
    /\ vlog[2].platform = "win32"
    /\ vlog[2].hashed = "/b|/a|zstd|windows-only|1.0"

SavedTo(p, objectName) ==
    /\ ret[p].op = "saveCache"
    /\ ret[p].objectName = objectName

\* the two saves were in flight at the same time
Concurrent(p, q) == q \in ret[p].overlapped \/ p \in ret[q].overlapped

\* C17: in storage-direct mode, when two saves to the same object address
\* run concurrently, both uploads are accepted and, once both have finished,
\* the object stored is in its entirety the archive of the writer whose put
\* completed last.
C17_LastWriteWins ==
    \A p, q \in Procs, a \in Addresses :
        /\ p # q
        /\ SavedTo(p, a) /\ SavedTo(q, a)
        /\ Concurrent(p, q)
        /\ ret[p].put = "200" /\ ret[q].put = "200"
        /\ ret[q].putSeq < ret[p].putSeq
        /\ nputs = ret[p].putSeq
        => /\ store[a] = ret[p].archive
           /\ ret[p].outcome = "returned" /\ ret[q].outcome = "returned"

\* run2 started its save while run1's was in flight and put first; run1's
\* put came last, over run2's different archive
C17_Witness ==
    /\ SavedTo("run1", ObjectName(env, "1")) /\ SavedTo("run2", ObjectName(env, "1"))
    /\ "run1" \in ret["run2"].overlapped
    /\ ret["run1"].put = "200" /\ ret["run2"].put = "200"
    /\ ret["run2"].putSeq < ret["run1"].putSeq
    /\ nputs = ret["run1"].putSeq
    /\ ret["run1"].overwrote
    /\ ret["run1"].archive.version # ret["run2"].archive.version
    /\ store[ObjectName(env, "1")] = ret["run1"].archive

\* C18: a not-found answer never makes getCacheEntry throw: the key is a
\* negative result and the next key of the list is probed; a miss is
\* returned only after every key of the list has answered not-found.
C18_NotFoundIsNegative ==
    \A p \in Procs : Resolved(p) =>
        LET r == ret[p]
            n == Len(r.probes)
        IN  /\ (\A i \in 1..n : r.probes[i].answer = "404") => r.outcome = "returned"
            /\ \A i \in 1..n :
                  r.probes[i].answer = "404" /\ i < Len(r.keys) =>
                      n > i /\ r.probes[i + 1].key = r.keys[i + 1]
            /\ r.outcome = "returned" /\ ~IsHit(r.entry) =>
                  /\ n = Len(r.keys)
                  /\ \A i \in 1..n : r.probes[i].answer = "404"

Probing(p) == frame[p].op = "getCacheEntry"

\* the head requests sent so far are one for each position before the
\* current one, in list order, and the current position is in the list
ProbedOncePerPosition(keys, probes) ==
    /\ Len(probes) <= Len(keys)
    /\ \A k \in 1..Len(probes) : probes[k].key = keys[k]

\* C19: getCacheEntry never retries: each position of the key list is probed
\* with at most one head request, a call issues at most |keys| head
\* requests, and it terminates provided each head request returns or fails.
C19_NoRetry ==
    /\ [](\A p \in Procs :
            /\ Probing(p) =>
                  /\ frame[p].i \in 1..Len(frame[p].keys)
                  /\ Len(frame[p].probes) = frame[p].i - 1
                  /\ ProbedOncePerPosition(frame[p].keys, frame[p].probes)
            /\ Resolved(p) => ProbedOncePerPosition(ret[p].keys, ret[p].probes))
    /\ (Probing(Resolver) ~> Resolved(Resolver))

\* a call that went through a list of MaxKeys keys, a fault among the answers
C19_Witness ==
    /\ Resolved(Resolver)
    /\ Len(ret[Resolver].keys) = MaxKeys
    /\ Len(ret[Resolver].probes) = MaxKeys
    /\ ~NoFault(ret[Resolver].probes)
    /\ ret[Resolver].keys[1] = ret[Resolver].keys[2]

\* C20: a hit returned by getCacheEntry refers to an object that was saved
\* under the cache version computed for the call: an object saved with
\* another path list or compression method under the same key and scope is
\* never returned as a hit.
C20_HitHasCallVersion ==
    \A p \in Procs : Resolved(p) /\ IsHit(ret[p].entry) =>
        LET r == ret[p]
            hit == r.probes[Len(r.probes)]
        IN  /\ hit.found # NoObject
            /\ hit.found.version = r.entry.cacheVersion
            /\ hit.found.version = VersionOf(r.in, env)

\* the addresses whose object differs after the step
Changed == {a \in Addresses : store'[a] # store[a]}

\* the step belongs to a call of the operation by run p
StepOf(p, op) ==
    /\ frame'[p] # frame[p] \/ ret'[p] # ret[p]
    /\ op \in {frame[p].op, frame'[p].op, ret'[p].op}

\* C21: getCacheEntry, getCacheVersion, downloadCache and reserveCacheVolc
\* leave the set of stored objects and their contents unchanged;
\* saveCache(cacheId, ..) changes at most the one object at
\* caches/{repo}/{ref}/{workflowHash}/{cacheId} and leaves every other
\* object unchanged, also when its upload fails.
C21_NamespaceFrame ==
    [][ /\ DOMAIN store' = DOMAIN store
        /\ \A p \in Procs :
              /\ StepOf(p, "getCacheEntry") => Changed = {}
              /\ StepOf(p, "downloadCache") => Changed = {}
              /\ issued' # issued => Changed = {}
              /\ StepOf(p, "saveCache") =>
                    LET cacheId == IF frame[p].op = "saveCache"
                                   THEN frame[p].cacheId ELSE frame'[p].cacheId
                    IN  Changed \subseteq
                            { "caches/" \o env.repo \o "/" \o env.ref \o "/"
                                  \o env.workflowHash \o "/" \o cacheId }
        /\ vlog' # vlog => Changed = {}
        /\ Changed # {} => \E p \in Procs : frame[p].op = "saveCache" /\ frame'[p] = NoCall
      ]_vars

\* the writer's save under a key replaced that key's object while the
\* reader's download was in flight, every other object is the earlier one,
\* and a getCacheVersion call has been made
C21_Witness ==
    /\ ret[Writer].op = "saveCache" /\ ret[Writer].put = "200"
    /\ ret[Writer].cacheId = "lock-x" /\ ret[Writer].overwrote
    /\ store[ObjectKey(env, "lock-x")] = ret[Writer].archive
    /\ \A a \in Addresses \ {ObjectKey(env, "lock-x")} : store[a] = EarlierArchive
    /\ frame[Resolver].op = "downloadCache"
    /\ vlog # <<>>
    /\ Len(issued) > 0

====
